---------------------------- MODULE Spec2Model ----------------------------
(***************************************************************************)
(* A model of bio-seq's codec derivation (bio-seq-derive/src/codec.rs) and *)
(* of the hand-written 2-bit Dna codec with its Seq<Dna> extensions        *)
(* (bio-seq/src/codec/dna.rs).                                             *)
(*                                                                         *)
(* Four specifications share the variables; each drives one part of the    *)
(* program and leaves the other parts idle:                                *)
(*   SpecWidth    parse_width                                              *)
(*   SpecVariants parse_variants and the tables it emits                   *)
(*   SpecDna      the Dna codec functions and comp                         *)
(*   SpecSeq      Seq<Dna>::set, bincode Encode / Decode                   *)
(***************************************************************************)
EXTENDS Integers, Sequences, FiniteSets, TLC

VARIABLES
    build,          \* "debug": overflow checks and debug assertions on; "release": off
    \* ---- parse_width
    max_variant,    \* the u8 handed to parse_width
    attrs,          \* the attribute list handed to parse_width
    width_result,   \* what parse_width produced
    \* ---- parse_variants
    variants,       \* the enum's variants, in declaration order
    cv_result,      \* what parse_variants produced
    \* ---- Dna codec
    dna_op,         \* the codec function last applied
    dna_arg,        \* its u8 argument (or the symbol's code)
    dna_result,     \* what it produced
    bits_arg,       \* the value last passed to unsafe_from_bits
    dna_orig,       \* the symbol comp started from
    dna_self,       \* the symbol comp mutates
    n_comp,         \* how many times comp has run
    \* ---- Seq<Dna>
    pc,             \* "idle", "built", "encoded", "decoded"
    orig,           \* the text the sequence was built from
    expected,       \* orig with the characters at the set positions replaced
    seq,            \* the Seq<Dna>: [len, bv]
    n_set,          \* how many set calls have run
    wire,           \* the encoded stream
    decoded         \* what decode produced

widthVars    == <<max_variant, attrs, width_result>>
variantsVars == <<variants, cv_result>>
dnaVars      == <<dna_op, dna_arg, dna_result, bits_arg, dna_orig, dna_self, n_comp>>
seqVars      == <<pc, orig, expected, seq, n_set, wire, decoded>>
vars         == <<build, widthVars, variantsVars, dnaVars, seqVars>>

Builds == {"debug", "release"}

(***************************************************************************)
(* Results.  A Rust Result / Option / panic, as one record shape.          *)
(***************************************************************************)
Pending       == [tag |-> "Pending", val |-> 0, msg |-> "", at |-> 0]
Ok(v)         == [tag |-> "Ok", val |-> v, msg |-> "", at |-> 0]
Err(m, v, a)  == [tag |-> "Err", val |-> v, msg |-> m, at |-> a]
Panic(m)      == [tag |-> "Panic", val |-> 0, msg |-> m, at |-> 0]

EmptyCV ==
    [idents |-> <<>>, to_chars |-> <<>>, from_chars |-> <<>>,
     alts |-> <<>>, unsafe_alts |-> <<>>, max_discriminant |-> 0]

CvPending     == [tag |-> "Pending", cv |-> EmptyCV, msg |-> "", at |-> 0]
CvOk(cv)      == [tag |-> "Ok", cv |-> cv, msg |-> "", at |-> 0]
CvErr(m, a)   == [tag |-> "Err", cv |-> EmptyCV, msg |-> m, at |-> a]
CvPanic(m, a) == [tag |-> "Panic", cv |-> EmptyCV, msg |-> m, at |-> a]

U8Max == 255

RECURSIVE Pow2(_)
Pow2(k) == IF k = 0 THEN 1 ELSE 2 * Pow2(k - 1)

Max2(a, b) == IF a > b THEN a ELSE b

(***************************************************************************)
(* parse_width                                                             *)
(***************************************************************************)

\* f32::ceil(f32::log2(f32::from(x))) as u8, for a u8 x.  f32::from(u8) is exact;
\* log2 of 0.0 is -inf, ceil keeps it, and the saturating `as u8` cast gives 0.
\* For x >= 1 the result is the least k with 2^k >= x (log2 is exact on the
\* powers of two and no other u8 is within rounding distance of an integer).
ceil_log2_as_u8(x) ==
    IF x = 0 THEN 0
    ELSE CHOOSE k \in 0..8 : Pow2(k) >= x /\ (k = 0 \/ Pow2(k - 1) < x)

\* `max_variant + 1` on u8: a panic with overflow checks, a wrap to 0 without.
u8_add_overflows(a, b) == a + b > U8Max
u8_wrapping_add(a, b)  == (a + b) % (U8Max + 1)

\* line 18; only evaluated when the addition did not panic
min_width(mv) == ceil_log2_as_u8(u8_wrapping_add(mv, 1))

\* One attribute: #[bits(<arg>)] or some other attribute.  arg is an integer
\* literal (kind "int") or anything else (kind "other").  An integer literal
\* is its text: neg = it is written with a leading `-` (syn's LitInt holds
\* -1 and -0 as literals), value = the number its digits spell.
IsBits(attr) == attr.path = "bits"

\* base10_parse::<u8>() hands the literal's digits, sign included, to u8's
\* parser: that rejects any `-` (also in -0) and any number above 255
base10_parse_u8_ok(lit) == ~lit.neg /\ lit.value <= U8Max

\* lines 22-38: the match on attr.parse_args::<syn::LitInt>()
parse_bits_attr(attr, i, mw) ==
    IF attr.arg.kind # "int"
    THEN Err("parse", 0, i)                             \* Err(err) => Err(err)
    ELSE IF ~base10_parse_u8_ok(attr.arg)
    THEN Panic("base10_parse::<u8>().unwrap()")
    ELSE IF attr.arg.value < mw
    THEN Err("Bit width is not large enough encode all variants", mw, i)
    ELSE Ok(attr.arg.value)

\* lines 20-41: the first `bits` attribute decides; with none, Ok(min_width)
FirstBits(as) ==
    IF \E i \in 1..Len(as) : IsBits(as[i])
    THEN CHOOSE i \in 1..Len(as) : IsBits(as[i]) /\ \A j \in 1..(i - 1) : ~IsBits(as[j])
    ELSE 0

parse_width(as, mv, b) ==
    IF u8_add_overflows(mv, 1) /\ b = "debug"
    THEN Panic("attempt to add with overflow")
    ELSE LET mw == min_width(mv)
             i  == FirstBits(as)
         IN  IF i = 0 THEN Ok(mw) ELSE parse_bits_attr(as[i], i, mw)


EmptySeq      == [len |-> 0, bv |-> <<>>]
DecPending    == [tag |-> "Pending", seq |-> EmptySeq, msg |-> ""]
DecOk(sq)     == [tag |-> "Ok", seq |-> sq, msg |-> ""]
DecErr(m)     == [tag |-> "Err", seq |-> EmptySeq, msg |-> m]

(***************************************************************************)
(* Idle values: what a specification gives the parts it does not drive.    *)
(***************************************************************************)
IdleWidth    == max_variant = 0 /\ attrs = <<>> /\ width_result = Pending
IdleVariants == variants = <<>> /\ cv_result = CvPending
IdleDna      == /\ dna_op = "none" /\ dna_arg = 0 /\ dna_result = Pending
                /\ bits_arg = 0 /\ dna_orig = 0 /\ dna_self = 0 /\ n_comp = 0
IdleSeq      == /\ pc = "idle" /\ orig = <<>> /\ expected = <<>>
                /\ seq = EmptySeq /\ n_set = 0
                /\ wire = <<>> /\ decoded = DecPending

(***************************************************************************)
(* SpecWidth: parse_width on every u8 max_variant and small attribute      *)
(* lists.                                                                   *)
(***************************************************************************)
MaxRequested == 9
MaxAttrs     == 2

LitInt(n, v) == [kind |-> "int", neg |-> n, value |-> v]
LitOther     == [kind |-> "other", neg |-> FALSE, value |-> 0]

\* the literals 0..MaxRequested, and 256, -0 and -1, which are no u8
RequestedWidths ==
    {LitInt(FALSE, v) : v \in (0..MaxRequested) \cup {U8Max + 1}}
    \cup {LitInt(TRUE, v) : v \in 0..1}

AttrSet ==
    {[path |-> "bits", arg |-> lit] : lit \in RequestedWidths}
    \cup {[path |-> "bits", arg |-> LitOther], [path |-> "repr", arg |-> LitOther]}

AttrLists == UNION {[1..n -> AttrSet] : n \in 0..MaxAttrs}

InitWidth ==
    /\ build \in Builds
    /\ max_variant \in 0..U8Max
    /\ attrs \in AttrLists
    /\ width_result = Pending
    /\ IdleVariants /\ IdleDna /\ IdleSeq

ParseWidth ==
    /\ width_result = Pending
    /\ width_result' = parse_width(attrs, max_variant, build)
    /\ UNCHANGED <<build, max_variant, attrs, variantsVars, dnaVars, seqVars>>

NextWidth == ParseWidth

SpecWidth == InitWidth /\ [][NextWidth]_vars

\* ceil(log2(n)) over the integers, for 1 <= n <= 256
MathCeilLog2(n) == CHOOSE k \in 0..8 : Pow2(k) >= n /\ (k = 0 \/ Pow2(k - 1) < n)

\* C1: for every max_code in 0..255, parse_width without a `bits` attribute
\* returns exactly ceil(log2(max_code + 1)), and with an accepted `bits`
\* attribute returns a width >= ceil(log2(max_code + 1)).
C1_WidthCoversMaxCode ==
    width_result # Pending =>
        /\ FirstBits(attrs) = 0 =>
              width_result = Ok(MathCeilLog2(max_variant + 1))
        /\ (FirstBits(attrs) # 0 /\ width_result.tag = "Ok") =>
              width_result.val >= MathCeilLog2(max_variant + 1)

\* C8: for every max_code and every requested width w (a u8): if w is below
\* ceil(log2(max_code + 1)) the result is the width error carrying that minimum,
\* otherwise the result is exactly w.
C8_RequestedWidthChecked ==
    (width_result # Pending /\ FirstBits(attrs) # 0
        /\ attrs[FirstBits(attrs)].arg.kind = "int"
        /\ ~attrs[FirstBits(attrs)].arg.neg
        /\ attrs[FirstBits(attrs)].arg.value \in 0..U8Max) =>
        LET w  == attrs[FirstBits(attrs)].arg.value
            mw == MathCeilLog2(max_variant + 1)
        IN  IF w < mw
            THEN /\ width_result.tag = "Err"
                 /\ width_result.msg = "Bit width is not large enough encode all variants"
                 /\ width_result.val = mw
            ELSE width_result = Ok(w)


(***************************************************************************)
(* parse_variants                                                          *)
(*                                                                         *)
(* A variant is [ident, disc, attrs]:                                      *)
(*   ident  the identifier's bytes (never empty)                           *)
(*   disc   [kind, neg, value]: "none" (no `= ...`), "int" (a             *)
(*          syn::Lit::Int, neg = written with a `-`), "byte"               *)
(*          (syn::Lit::Byte), "str" (another literal), "expr" (an          *)
(*          expression that is no literal: `1 + 1`, and `-1` as source     *)
(*          text, which parses as a unary minus)                           *)
(*   attrs  a list of [path, ok, lits]: path "display" (lits = the one     *)
(*          char's scalar value), "alt" (lits = the literals' u8 values)   *)
(*          or another path; ok = the arguments parse                      *)
(***************************************************************************)
MsgMissingDiscriminant     == "Codec derivations require discriminants"
MsgInvalidDiscriminantType == "Codec derivations require byte or integer discriminants"

\* a match arm `pat => sym` of the emitted tables
Arm(p, sy) == [pat |-> p, sym |-> sy]

\* `alt_attr.value() as u8`: a char cast keeps the low 8 bits
char_as_u8(c) == c % (U8Max + 1)

\* lines 105-127: the discriminant of one variant.
\* "value" = the u8, "err" = the returned error, "panic" = the unwrap
discriminant_value(v, i) ==
    IF v.disc.kind = "byte" THEN [tag |-> "value", value |-> v.disc.value, msg |-> ""]
    ELSE IF v.disc.kind = "int"
    THEN IF base10_parse_u8_ok(v.disc)
         THEN [tag |-> "value", value |-> v.disc.value, msg |-> ""]
         ELSE [tag |-> "panic", value |-> 0, msg |-> "base10_parse::<u8>().unwrap()"]
    ELSE IF v.disc.kind = "str"
    THEN [tag |-> "err", value |-> 0, msg |-> MsgInvalidDiscriminantType]
    ELSE [tag |-> "err", value |-> 0, msg |-> MsgMissingDiscriminant]

\* lines 133-145: the attribute loop of one variant, from attribute j on.
\* st = [ok, char_repr, alts, unsafe_alts]
RECURSIVE variant_attrs(_, _, _)
variant_attrs(v, j, st) ==
    IF j > Len(v.attrs) THEN st
    ELSE LET a == v.attrs[j] IN
         IF a.path = "display"
         THEN IF ~a.ok THEN [st EXCEPT !.ok = FALSE]
              ELSE variant_attrs(v, j + 1, [st EXCEPT !.char_repr = char_as_u8(a.lits[1])])
         ELSE IF a.path = "alt"
         THEN IF ~a.ok THEN [st EXCEPT !.ok = FALSE]
              ELSE variant_attrs(v, j + 1,
                     [st EXCEPT
                        !.alts = @ \o [k \in 1..Len(a.lits) |-> Arm(a.lits[k], v.ident)],
                        !.unsafe_alts = @ \o [k \in 1..Len(a.lits) |-> Arm(a.lits[k], v.ident)]])
         ELSE variant_attrs(v, j + 1, st)

\* lines 100-149: the loop over the variants, from variant i on, acc the
\* vectors built so far
RECURSIVE parse_variants_from(_, _, _)
parse_variants_from(vs, i, acc) ==
    IF i > Len(vs) THEN CvOk(acc)                                      \* lines 151-158
    ELSE
      LET v  == vs[i]
          d  == discriminant_value(v, i)
      IN
      IF d.tag = "panic" THEN CvPanic(d.msg, i)
      ELSE IF d.tag = "err" THEN CvErr(d.msg, i)
      ELSE
        LET st0 == [ok |-> TRUE,
                    char_repr |-> Head(v.ident),                          \* line 131
                    alts |-> Append(acc.alts, Arm(d.value, v.ident)),     \* line 118
                    unsafe_alts |-> Append(acc.unsafe_alts, Arm(d.value, v.ident))]
            st  == variant_attrs(v, 1, st0)
        IN
        IF ~st.ok THEN CvErr("parse", i)                               \* the `?`s
        ELSE parse_variants_from(vs, i + 1,
               [idents |-> Append(acc.idents, v.ident),
                to_chars |-> Append(acc.to_chars, Arm(v.ident, st.char_repr)),
                from_chars |-> Append(acc.from_chars, Arm(st.char_repr, v.ident)),
                alts |-> st.alts,
                unsafe_alts |-> st.unsafe_alts,
                max_discriminant |-> Max2(acc.max_discriminant, d.value)])

parse_variants(vs) == parse_variants_from(vs, 1, EmptyCV)

(***************************************************************************)
(* The derived Codec functions: a `match` over the emitted arms, the first *)
(* matching arm winning.  NoSymbol is None.                                *)
(***************************************************************************)
NoSymbol == <<>>

first_arm(arms, key) ==
    IF \E k \in 1..Len(arms) : arms[k].pat = key
    THEN arms[CHOOSE k \in 1..Len(arms) :
                /\ arms[k].pat = key
                /\ \A j \in 1..(k - 1) : arms[j].pat # key].sym
    ELSE NoSymbol

gen_try_from_bits(cv, b)    == first_arm(cv.alts, b)
gen_unsafe_from_bits(cv, b) == first_arm(cv.unsafe_alts, b)
gen_try_from_ascii(cv, c)   == first_arm(cv.from_chars, c)
gen_to_char(cv, sy)         == first_arm(cv.to_chars, sy)
\* `self as u8`: the declared discriminant
gen_to_bits(vs, i)          == vs[i].disc.value


(***************************************************************************)
(* SpecVariants: parse_variants on small declarations with distinct        *)
(* identifiers.                                                            *)
(***************************************************************************)
MaxVariants     == 2
MaxCode         == 1
MaxVariantAttrs == 1
MaxAlts         == 1

\* "A", "Ala", "C"
Idents == {<<65>>, <<65, 108, 97>>, <<67>>}

Disc(k, v) == [kind |-> k, neg |-> FALSE, value |-> v]
Discs ==
    {Disc("int", n) : n \in (0..MaxCode) \cup {U8Max + 1}}
    \cup {Disc("byte", 67), Disc("none", 0), Disc("str", 0), Disc("expr", 0)}

\* 'C', 'X', and U+0141, a char beyond one byte
DisplayChars == {67, 88, 321}
\* 1, b'*', b'C'
AltLits == {1, 42, 67}

VAttr(p, o, l) == [path |-> p, ok |-> o, lits |-> l]
VAttrSet ==
    {VAttr("display", TRUE, <<c>>) : c \in DisplayChars}
    \cup {VAttr("alt", TRUE, l) : l \in UNION {[1..n -> AltLits] : n \in 0..MaxAlts}}
    \cup {VAttr("display", FALSE, <<>>), VAttr("alt", FALSE, <<>>),
          VAttr("doc", TRUE, <<>>)}

VariantSet ==
    [ident : Idents, disc : Discs,
     attrs : UNION {[1..n -> VAttrSet] : n \in 0..MaxVariantAttrs}]

Declarations ==
    {vs \in UNION {[1..n -> VariantSet] : n \in 0..MaxVariants} :
        \A i, j \in 1..Len(vs) : i # j => vs[i].ident # vs[j].ident}

InitVariants ==
    /\ build = "release"
    /\ variants \in Declarations
    /\ cv_result = CvPending
    /\ IdleWidth /\ IdleDna /\ IdleSeq

ParseVariants ==
    /\ cv_result.tag = "Pending"
    /\ cv_result' = parse_variants(variants)
    /\ UNCHANGED <<build, variants, widthVars, dnaVars, seqVars>>

NextVariants == ParseVariants

SpecVariants == InitVariants /\ [][NextVariants]_vars

\* the byte to_char is to render: the last `display` char, else the name's first byte
RECURSIVE PrimaryCharFrom(_, _, _)
PrimaryCharFrom(v, j, c) ==
    IF j > Len(v.attrs) THEN c
    ELSE PrimaryCharFrom(v, j + 1,
            IF v.attrs[j].path = "display" THEN v.attrs[j].lits[1] % 256 ELSE c)
PrimaryChar(v) == PrimaryCharFrom(v, 1, v.ident[1])

\* the bytes a variant's `alt` attributes list
AltBytes(v) ==
    {v.attrs[j].lits[k] : <<j, k>> \in
        {jk \in (1..Len(v.attrs)) \X (1..MaxAlts + 1) :
            /\ v.attrs[jk[1]].path = "alt"
            /\ jk[2] <= Len(v.attrs[jk[1]].lits)}}

\* the declared codes differ pairwise (what rustc itself demands of an enum)
DistinctCodes(vs) ==
    \A i, j \in 1..Len(vs) : i # j => vs[i].disc.value # vs[j].disc.value

\* C3: for every accepted declaration (here: with pairwise distinct codes) and
\* every symbol s, try_from_ascii(to_char(s)) = Some(s).
C3_AsciiRoundTrip ==
    (cv_result.tag = "Ok" /\ DistinctCodes(variants)) =>
        \A i \in 1..Len(variants) :
            gen_try_from_ascii(cv_result.cv, gen_to_char(cv_result.cv, variants[i].ident))
                = variants[i].ident

\* C4: for every accepted declaration, every symbol s and every byte b of s's
\* `alt` annotation, try_from_ascii(b) = Some(s); the alt bytes leave the
\* name-derived mapping in place and never reach the to_char table.
C4_AltBytesReadAsSymbol ==
    cv_result.tag = "Ok" =>
        \A i \in 1..Len(variants) :
            /\ \A b \in AltBytes(variants[i]) :
                   gen_try_from_ascii(cv_result.cv, b) = variants[i].ident
            /\ gen_to_char(cv_result.cv, variants[i].ident) = PrimaryChar(variants[i])
            /\ \E k \in 1..Len(cv_result.cv.from_chars) :
                   cv_result.cv.from_chars[k] = Arm(PrimaryChar(variants[i]), variants[i].ident)

\* the first variant whose discriminant is missing or not a u8 literal; 0 if none
BadDisc(v) ==
    \/ v.disc.kind \in {"none", "str", "expr"}
    \/ v.disc.kind = "int" /\ ~base10_parse_u8_ok(v.disc)
BadAttrs(v) == \E j \in 1..Len(v.attrs) : ~v.attrs[j].ok
FirstOffender(vs) ==
    IF \E i \in 1..Len(vs) : BadDisc(vs[i]) \/ BadAttrs(vs[i])
    THEN CHOOSE i \in 1..Len(vs) :
            /\ BadDisc(vs[i]) \/ BadAttrs(vs[i])
            /\ \A j \in 1..(i - 1) : ~(BadDisc(vs[j]) \/ BadAttrs(vs[j]))
    ELSE 0

\* C9: a symbol without an explicit code yields the MissingDiscriminant error
\* anchored to it; a code that is no integer or byte literal, or an integer
\* literal outside 0..255, yields the InvalidDiscriminantType error anchored to
\* it; the outcome is a returned error, never a crash, and no descriptor.
C9_DiscriminantErrors ==
    (cv_result.tag # "Pending" /\ FirstOffender(variants) # 0
        /\ BadDisc(variants[FirstOffender(variants)])) =>
        LET i == FirstOffender(variants)
            v == variants[i]
        IN  /\ cv_result.tag = "Err"
            /\ cv_result.at = i
            /\ cv_result.cv = EmptyCV
            /\ cv_result.msg = IF v.disc.kind = "none"
                               THEN MsgMissingDiscriminant
                               ELSE MsgInvalidDiscriminantType


(***************************************************************************)
(* The Dna codec (dna.rs).  A Dna value is its #[repr(u8)] discriminant.   *)
(***************************************************************************)
A == 0
C == 1
G == 2
T == 3
BITS == 2

DnaSyms == {A, C, G, T}

None    == [tag |-> "None", val |-> 0, msg |-> "", at |-> 0]
Some(v) == [tag |-> "Some", val |-> v, msg |-> "", at |-> 0]

\* u8 bit operations, bit by bit over the 8 bits
RECURSIVE BitXor(_, _, _)
BitXor(a, b, n) ==
    IF n = 0 THEN 0
    ELSE (((a % 2) + (b % 2)) % 2) + 2 * BitXor(a \div 2, b \div 2, n - 1)

RECURSIVE BitAnd(_, _, _)
BitAnd(a, b, n) ==
    IF n = 0 THEN 0
    ELSE ((a % 2) * (b % 2)) + 2 * BitAnd(a \div 2, b \div 2, n - 1)

u8_xor(a, b) == BitXor(a, b, 8)
u8_and(a, b) == BitAnd(a, b, 8)
\* `<<` on u8 drops the bits shifted out (no overflow check for a shift < 8)
u8_shl(a, k) == (a * Pow2(k)) % (U8Max + 1)
u8_shr(a, k) == a \div Pow2(k)

\* lines 24-27: debug_assert!(b < 4); transmute(b & 0b11)
unsafe_from_bits(b, bld) ==
    IF bld = "debug" /\ ~(b < 4)
    THEN Panic("assertion failed: b < 4")
    ELSE Ok(u8_and(b, 3))

\* lines 31-37
try_from_bits(b) == IF b < 4 THEN Some(b) ELSE None

\* line 44: the value ((b << 1) + b) >> 3 handed to unsafe_from_bits, the
\* addition wrapped
ascii_to_bits(b) == u8_shr(u8_wrapping_add(u8_shl(b, 1), b), 3)

\* lines 42-45
unsafe_from_ascii(b, bld) ==
    IF bld = "debug" /\ u8_add_overflows(u8_shl(b, 1), b)
    THEN Panic("attempt to add with overflow")
    ELSE unsafe_from_bits(ascii_to_bits(b), bld)

\* lines 47-55
try_from_ascii(c) ==
    IF c = 65 THEN Some(A)
    ELSE IF c = 67 THEN Some(C)
    ELSE IF c = 71 THEN Some(G)
    ELSE IF c = 84 THEN Some(T)
    ELSE None

\* lines 57-64
to_char(sy) ==
    IF sy = A THEN 65
    ELSE IF sy = C THEN 67
    ELSE IF sy = G THEN 71
    ELSE 84

\* lines 66-68: self as u8
to_bits(sy) == sy

\* lines 78-80: the mask 0b11
comp_bits_mask01(sy) == u8_xor(sy, 1)
comp_bits(sy) == u8_xor(sy, 3)
comp(sy, bld) == unsafe_from_bits(comp_bits(sy), bld)

(***************************************************************************)
(* SpecDna: each codec function on every u8, and comp repeated on every    *)
(* symbol.                                                                 *)
(***************************************************************************)
MaxComp == 2

InitDna ==
    /\ build \in Builds
    /\ dna_op = "none"
    /\ dna_arg \in 0..U8Max
    /\ dna_result = Pending
    /\ bits_arg = 0
    /\ dna_orig \in DnaSyms
    /\ dna_self = dna_orig
    /\ n_comp = 0
    /\ IdleWidth /\ IdleVariants /\ IdleSeq

DnaFrame == UNCHANGED <<build, dna_arg, dna_orig, widthVars, variantsVars, seqVars>>

UnsafeFromBits ==
    /\ dna_op = "none"
    /\ dna_op' = "unsafe_from_bits"
    /\ bits_arg' = dna_arg
    /\ dna_result' = unsafe_from_bits(dna_arg, build)
    /\ UNCHANGED <<dna_self, n_comp>> /\ DnaFrame

TryFromBits ==
    /\ dna_op = "none"
    /\ dna_op' = "try_from_bits"
    /\ dna_result' = try_from_bits(dna_arg)
    /\ UNCHANGED <<bits_arg, dna_self, n_comp>> /\ DnaFrame

\* with overflow checks the addition at line 44 panics before the call, and
\* unsafe_from_bits is handed nothing
UnsafeFromAscii ==
    /\ dna_op = "none"
    /\ dna_op' = "unsafe_from_ascii"
    /\ bits_arg' = IF build = "debug" /\ u8_add_overflows(u8_shl(dna_arg, 1), dna_arg)
                   THEN bits_arg
                   ELSE ascii_to_bits(dna_arg)
    /\ dna_result' = unsafe_from_ascii(dna_arg, build)
    /\ UNCHANGED <<dna_self, n_comp>> /\ DnaFrame

TryFromAscii ==
    /\ dna_op = "none"
    /\ dna_op' = "try_from_ascii"
    /\ dna_result' = try_from_ascii(dna_arg)
    /\ UNCHANGED <<bits_arg, dna_self, n_comp>> /\ DnaFrame

\* to_char and to_bits take a symbol: dna_orig
ToChar ==
    /\ dna_op = "none"
    /\ dna_op' = "to_char"
    /\ dna_result' = Ok(to_char(dna_orig))
    /\ UNCHANGED <<bits_arg, dna_self, n_comp>> /\ DnaFrame

ToBits ==
    /\ dna_op = "none"
    /\ dna_op' = "to_bits"
    /\ dna_result' = Ok(to_bits(dna_orig))
    /\ UNCHANGED <<bits_arg, dna_self, n_comp>> /\ DnaFrame

\* comp(&mut self): *self = unsafe_from_bits(*self as u8 ^ 0b11)
Comp ==
    /\ dna_op \in {"none", "comp"}
    /\ dna_result.tag # "Panic"
    /\ n_comp < MaxComp
    /\ dna_op' = "comp"
    /\ bits_arg' = comp_bits(dna_self)
    /\ dna_result' = comp(dna_self, build)
    /\ dna_self' = IF dna_result'.tag = "Ok" THEN dna_result'.val ELSE dna_self
    /\ n_comp' = n_comp + 1
    /\ DnaFrame

NextDna ==
    \/ UnsafeFromBits \/ TryFromBits \/ UnsafeFromAscii \/ TryFromAscii
    \/ ToChar \/ ToBits \/ Comp

SpecDna == InitDna /\ [][NextDna]_vars

\* the base a base pairs with: A-T, C-G
Paired(sy) == IF sy = A THEN T ELSE IF sy = C THEN G ELSE IF sy = G THEN C ELSE A

\* C7: comp never fails, hands unsafe_from_bits a value < 4, maps every base to
\* its pair (A-T, C-G: a bijection without fixed point), and applied twice
\* gives the base back.
C7_ComplementInvolution ==
    dna_op = "comp" =>
        /\ dna_result.tag = "Ok"
        /\ bits_arg < 4
        /\ dna_self \in DnaSyms
        /\ n_comp % 2 = 1 => (dna_self = Paired(dna_orig) /\ dna_self # dna_orig)
        /\ n_comp % 2 = 0 => dna_self = dna_orig

C7_Witness == dna_op = "comp" /\ n_comp = 2 /\ dna_orig = C /\ dna_self = C

\* C10: for b in {'A','C','G','T'}, ((b << 1) + b) >> 3 does not overflow, is
\* 0, 1, 2, 3 respectively (so satisfies unsafe_from_bits's assertion b < 4),
\* and the symbol returned is the one try_from_ascii(b) returns.
C10_AsciiFastPath ==
    (dna_op = "unsafe_from_ascii" /\ dna_arg \in {65, 67, 71, 84}) =>
        /\ ~u8_add_overflows(u8_shl(dna_arg, 1), dna_arg)
        /\ bits_arg = try_from_ascii(dna_arg).val
        /\ bits_arg < 4
        /\ dna_result = Ok(try_from_ascii(dna_arg).val)

\* C2: for every symbol s, try_from_bits(to_bits(s)) = Some(s) and
\* unsafe_from_bits(to_bits(s)) = s: for Dna, and for every accepted
\* declaration (here: with pairwise distinct codes) through the emitted
\* `alts` / `unsafe_alts` arms.
C2_BitsRoundTrip ==
    /\ \A sy \in DnaSyms :
          /\ try_from_bits(to_bits(sy)) = Some(sy)
          /\ \A bld \in Builds : unsafe_from_bits(to_bits(sy), bld) = Ok(sy)
    /\ (cv_result.tag = "Ok" /\ DistinctCodes(variants)) =>
          \A i \in 1..Len(variants) :
              /\ gen_try_from_bits(cv_result.cv, gen_to_bits(variants, i)) = variants[i].ident
              /\ gen_unsafe_from_bits(cv_result.cv, gen_to_bits(variants, i)) = variants[i].ident


(***************************************************************************)
(* Seq<Dna>.  A sequence is [len, bv]: len symbols, bv the BITS * len live *)
(* bits of the bit vector, bv[1] the bit at offset 0.  A usize word is a   *)
(* tuple of WordBits bits.                                                 *)
(***************************************************************************)
WordBits == 64

Bit(cond) == IF cond THEN 1 ELSE 0

\* lines 109-116: the high bit of the code goes to offset pos << 1, the low
\* bit to offset + 1
set_low_bit_first(sq, pos, base) ==
    LET offset == pos * 2
        val    == base
    IN  [sq EXCEPT !.bv = [@ EXCEPT ![offset + 1] = Bit(u8_and(val, 1) # 0),
                                    ![offset + 2] = Bit(u8_and(val, 2) # 0)]]
set(sq, pos, base) ==
    LET offset == pos * 2
        val    == base
    IN  [sq EXCEPT !.bv = [@ EXCEPT ![offset + 1] = Bit(u8_and(val, 2) # 0),
                                    ![offset + 2] = Bit(u8_and(val, 1) # 0)]]

\* Seq::len
seq_len(sq) == sq.len

\* Seq::get: the slot at offset index * BITS, most significant bit first,
\* through the codec's unchecked conversion
get(sq, i, bld) == unsafe_from_bits(2 * sq.bv[BITS * i + 1] + sq.bv[BITS * i + 2], bld)

\* building a sequence from a text: every symbol's to_bits in its slot, in the
\* bit order get reads
from_text(txt) ==
    [len |-> Len(txt),
     bv  |-> [k \in 1..(BITS * Len(txt)) |->
                 LET code == to_bits(txt[(k + 1) \div BITS])
                 IN  IF k % 2 = 1 THEN code \div 2 ELSE code % 2]]

CeilDiv(a, b) == (a + b - 1) \div b

\* Seq::into_raw: the backing words, the bits above the live ones zero
into_raw(sq) ==
    [w \in 1..CeilDiv(Len(sq.bv), WordBits) |->
        [k \in 1..WordBits |->
            LET pos == (w - 1) * WordBits + k
            IN  IF pos <= Len(sq.bv) THEN sq.bv[pos] ELSE 0]]

\* Seq::from_raw: None unless words holds ceil(len * BITS / word width) words
from_raw(n, words) ==
    IF Len(words) < CeilDiv(n * BITS, WordBits) THEN None
    ELSE [tag |-> "Some", val |-> 0, msg |-> "", at |-> 0,
          seq |-> [len |-> n,
                   bv  |-> [k \in 1..(n * BITS) |->
                               words[((k - 1) \div WordBits) + 1][((k - 1) % WordBits) + 1]]]]

\* bincode's encoding of a (usize, [usize]) pair: the first field, then the
\* slice's length, then its elements
bincode_encode_pair(n, words) == <<n, Len(words)>> \o words
bincode_decode_pair(stream) ==
    [len |-> stream[1], bits |-> SubSeq(stream, 3, 2 + stream[2])]

\* lines 120-125
encode_bit_len(sq) == bincode_encode_pair(Len(sq.bv), into_raw(sq))
encode(sq) == bincode_encode_pair(seq_len(sq), into_raw(sq))

\* lines 129-136
decode(stream) ==
    LET p == bincode_decode_pair(stream)
        r == from_raw(p.len, p.bits)
    IN  IF r.tag = "Some" THEN DecOk(r.seq)
        ELSE DecErr("Failed to recreate the DNA sequence from its raw parts")

(***************************************************************************)
(* SpecSeq: a sequence built from a text, some set calls, then encode and  *)
(* decode.                                                                 *)
(***************************************************************************)
MaxLen  == 3
MaxSets == 2

SymbolsPerWord == WordBits \div BITS

\* "ACTGACTTTCACCGGG" (tests::bincode_test)
Text16 == <<A, C, T, G, A, C, T, T, T, C, A, C, C, G, G, G>>
LongText(n) == [i \in 1..n |-> (i + n + 1) % 4]

Texts ==
    UNION {[1..n -> DnaSyms] : n \in 0..MaxLen}
    \cup {Text16, LongText(SymbolsPerWord), LongText(SymbolsPerWord + 1)}

\* the positions set is tried at: all of a short sequence; the ends and the
\* word boundary of a long one
Positions(n) ==
    IF n <= MaxLen THEN 0..(n - 1)
    ELSE {0, SymbolsPerWord - 1, SymbolsPerWord, n - 1} \cap (0..(n - 1))

InitSeq ==
    /\ build \in Builds
    /\ pc = "built"
    /\ orig \in Texts
    /\ expected = orig
    /\ seq = from_text(orig)
    /\ n_set = 0
    /\ wire = <<>>
    /\ decoded = DecPending
    /\ IdleWidth /\ IdleVariants /\ IdleDna

SeqFrame == UNCHANGED <<build, orig, widthVars, variantsVars, dnaVars>>

Set ==
    /\ pc = "built"
    /\ n_set < MaxSets
    /\ \E pos \in Positions(seq_len(seq)), base \in DnaSyms :
          /\ seq' = set(seq, pos, base)
          /\ expected' = [expected EXCEPT ![pos + 1] = base]
    /\ n_set' = n_set + 1
    /\ UNCHANGED <<pc, wire, decoded>> /\ SeqFrame

Encode ==
    /\ pc = "built"
    /\ wire' = encode(seq)
    /\ pc' = "encoded"
    /\ UNCHANGED <<seq, expected, n_set, decoded>> /\ SeqFrame

Decode ==
    /\ pc = "encoded"
    /\ decoded' = decode(wire)
    /\ pc' = "decoded"
    /\ UNCHANGED <<seq, expected, n_set, wire>> /\ SeqFrame

NextSeq == Set \/ Encode \/ Decode

SpecSeq == InitSeq /\ [][NextSeq]_vars

\* C5: after any sequence of set(pos, base) calls with pos < n, get(pos) is the
\* base last set at pos, unset indices keep their symbol, the length is
\* unchanged, and the sequence equals the one built from the edited text.
C5_SetThenGet ==
    /\ seq_len(seq) = Len(orig)
    /\ Len(seq.bv) = BITS * Len(orig)
    /\ \A i \in 0..(Len(orig) - 1) : get(seq, i, build) = Ok(expected[i + 1])
    /\ seq = from_text(expected)

C5_Witness ==
    /\ n_set = 2
    /\ Len(orig) = SymbolsPerWord + 1
    /\ orig[SymbolsPerWord + 1] # C
    /\ expected[SymbolsPerWord + 1] = C
    /\ expected[1] = G /\ orig[1] # G
    /\ get(seq, SymbolsPerWord, build) = Ok(C)

\* C6: decode(encode(c)) succeeds with c's length and c's symbol at every
\* index; encode writes (c.len(), c.into_raw()) and leaves c unchanged.
C6_BincodeRoundTrip ==
    /\ pc \in {"encoded", "decoded"} =>
          /\ wire[1] = Len(expected)
          /\ SubSeq(wire, 3, Len(wire)) = into_raw(from_text(expected))
          /\ seq = from_text(expected)
    /\ pc = "decoded" =>
          /\ decoded.tag = "Ok"
          /\ seq_len(decoded.seq) = Len(expected)
          /\ \A i \in 0..(Len(expected) - 1) :
                 get(decoded.seq, i, build) = Ok(expected[i + 1])

C6_Witness ==
    /\ pc = "decoded"
    /\ decoded.tag = "Ok"
    /\ Len(expected) = SymbolsPerWord + 1
    /\ n_set >= 1
    /\ expected # orig
    /\ get(decoded.seq, SymbolsPerWord, build) = Ok(expected[SymbolsPerWord + 1])

=============================================================================
